---------------------------- MODULE Spec2Model ----------------------------
(***************************************************************************)
(* similar-files: a build operation (similar-index) that scans a workspace *)
(* and writes <root>/.similar-files/index.json, and a query operation      *)
(* (similar-find) that loads that index and ranks its documents against a  *)
(* file or text query.  The two run as separate short-lived processes over *)
(* one file system; every await of the scripts is a step boundary.         *)
(*                                                                         *)
(* Representation.                                                         *)
(*  - A file or directory name is the tuple of its dot-separated segments: *)
(*    "a.md" is <<"a","md">>, ".git" is <<"","git">>, ".." is <<"","","">>.*)
(*  - A path is the sequence of its names; all paths here are absolute     *)
(*    unless held in a [abs, parts] record.                                *)
(*  - Weights of vectors are integers in units of 1e-5, similarities and   *)
(*    thresholds are integers in units of 1e-3.                            *)
(***************************************************************************)
EXTENDS Integers, Sequences, FiniteSets, TLC

VARIABLES
    fs,          \* the workspace: set of [path, kind, ok, content, ord] entries
    indexDirs,   \* index directories that exist
    indexFiles,  \* index directory -> the index.json in it (or Absent)
    prevIndex,   \* index.json of the workspace as it was before this build
    bscript,     \* which build script runs: "v3" (scripts/index-workspace.mjs) or "v2"
    bpc, files, bpos, docs, metadata, bwarn, bvectors, bindex, bexit, blog,
    bdense,      \* the vectors vectorizeDocuments returned to the build
    qpc, qcwd, qargs, options, qload, qindex, qcontent, qsims, results,
    qthrown, qexit, qerr, qout,
    qvector,     \* the query vector of findSimilar
    qdocvecs,    \* the expanded document vectors of findSimilar
    spc, vec, sparse, dense, resparse   \* sparse-encoding round trip of one vector

fsvars == <<indexDirs, indexFiles>>
bvars  == <<bscript, bpc, files, bpos, docs, metadata, bwarn, bvectors, bindex, bexit, blog,
            bdense>>
qvars  == <<qpc, qcwd, qargs, options, qload, qindex, qcontent, qsims, results,
            qthrown, qexit, qerr, qout, qvector, qdocvecs>>
svars  == <<spc, vec, sparse, dense, resparse>>
vars   == <<fs, prevIndex, fsvars, bvars, qvars, svars>>

-----------------------------------------------------------------------------
(* Bounds of the model *)

\* DEFAULT_CONFIG.hashDim is 2048; the model hashes into this many buckets.
HashDim == 2

-----------------------------------------------------------------------------
(* shared.mjs: DEFAULT_CONFIG *)

DefaultThreshold == 100      \* threshold: 0.1, in units of 1e-3
DefaultTop == 10

allowedExtensions ==
    { <<"", "md">>, <<"", "ts">>, <<"", "tsx">>, <<"", "js">>, <<"", "jsx">>,
      <<"", "py">>, <<"", "rs">>, <<"", "go">> }

excludedDirs ==
    { <<"node_modules">>, <<"venv">>, <<"", "venv">>, <<"target">>, <<"", "git">>,
      <<"dist">>, <<"build">>, <<"__pycache__">>, <<"", "pnpm-store">>,
      <<"", "netlify">>, <<"archives">>, <<"", "next">>, <<"", "cache">>,
      <<"coverage">> }

\* join(workspaceRoot, '.similar-files')
getDefaultIndexDir(workspaceRoot) == Append(workspaceRoot, <<"", "similar-files">>)

\* join(indexDir, 'index.json')
getIndexFile(indexDir) == Append(indexDir, <<"index", "json">>)

-----------------------------------------------------------------------------
(* node:path on names and paths *)

\* String.prototype.toLowerCase on one segment of a name
LowerSeg(s) ==
    CASE s = "MD" -> "md"
      [] s = "Md" -> "md"
      [] s = "TS" -> "ts"
      [] s = "Node_Modules" -> "node_modules"
      [] OTHER -> s

toLowerCase(name) == [i \in DOMAIN name |-> LowerSeg(name[i])]

\* name.startsWith('.')
startsWithDot(name) == Len(name) >= 2 /\ name[1] = ""

\* extname: from the last '.' of the name to its end; '' when there is no
\* '.' or the only '.' is the first character.
extname(name) ==
    IF Len(name) >= 2 /\ ~(Len(name) = 2 /\ name[1] = "")
    THEN <<"", name[Len(name)]>>
    ELSE <<"">>

DotName == <<"", "">>
DotDotName == <<"", "", "">>

RECURSIVE normalize(_, _)
\* resolve's normalisation: drop ".", let ".." remove the component before it
normalize(parts, acc) ==
    IF parts = <<>> THEN acc
    ELSE LET h == Head(parts) IN
         normalize(Tail(parts),
                   IF h = DotName THEN acc
                   ELSE IF h = DotDotName
                        THEN (IF acc = <<>> THEN acc ELSE SubSeq(acc, 1, Len(acc) - 1))
                        ELSE Append(acc, h))

isAbsolute(p) == p.abs

\* resolve(base, p): base is an absolute path, p an [abs, parts] record
resolve(base, p) == IF p.abs THEN normalize(p.parts, <<>>) ELSE normalize(base \o p.parts, <<>>)

RECURSIVE commonLen(_, _)
commonLen(a, b) ==
    IF a = <<>> \/ b = <<>> \/ Head(a) # Head(b) THEN 0
    ELSE 1 + commonLen(Tail(a), Tail(b))

\* relative(from, to) for absolute paths: both are resolved, then ".." for
\* every component of `from` past the common prefix, then the rest of `to`.
relative(from, to) ==
    LET f == normalize(from, <<>>)
        t == normalize(to, <<>>)
        c == commonLen(f, t)
    IN  [i \in 1..(Len(f) - c) |-> DotDotName] \o SubSeq(t, c + 1, Len(t))

-----------------------------------------------------------------------------
(* The workspace *)

Root == << <<"ws">> >>
SubDir == Append(Root, <<"sub">>)

IsPrefix(a, b) == Len(a) <= Len(b) /\ SubSeq(b, 1, Len(a)) = a

Last(s) == s[Len(s)]

\* readdir(dir, { withFileTypes: true }): the entries of dir, in directory order
ReadDir(dir) ==
    LET kids == { n \in fs : Len(n.path) = Len(dir) + 1 /\ IsPrefix(dir, n.path) }
    IN  [i \in 1..Cardinality(kids) |->
            CHOOSE c \in kids : Cardinality({d \in kids : d.ord < c.ord}) = i - 1]

\* readdir throws (missing, not a directory, no permission)
ReadDirFails(dir) == ~(\E n \in fs : n.path = dir /\ n.kind = "dir" /\ n.ok)

RECURSIVE collectFiles(_, _)
RECURSIVE CollectEntries(_, _, _, _)

\* the body of the for loop of collectFiles
CollectEntry_NoHiddenCheck(dir, entry, acc) ==
    LET fullPath == Append(dir, Last(entry.path)) IN
    IF entry.kind = "dir"
    THEN IF Last(entry.path) \notin excludedDirs
         THEN collectFiles(fullPath, acc)
         ELSE acc
    ELSE IF entry.kind = "file"
         THEN IF toLowerCase(extname(Last(entry.path))) \in allowedExtensions
              THEN Append(acc, fullPath)
              ELSE acc
         ELSE acc
CollectEntry(dir, entry, acc) ==
    LET fullPath == Append(dir, Last(entry.path)) IN
    IF entry.kind = "dir"
    THEN IF Last(entry.path) \notin excludedDirs /\ ~startsWithDot(Last(entry.path))
         THEN collectFiles(fullPath, acc)
         ELSE acc
    ELSE IF entry.kind = "file"
         THEN IF toLowerCase(extname(Last(entry.path))) \in allowedExtensions
              THEN Append(acc, fullPath)
              ELSE acc
         ELSE acc

CollectEntries(dir, entries, i, acc) ==
    IF i > Len(entries) THEN acc
    ELSE CollectEntries(dir, entries, i + 1, CollectEntry(dir, entries[i], acc))

collectFiles(dir, acc) ==
    IF ReadDirFails(dir) THEN acc
    ELSE CollectEntries(dir, ReadDir(dir), 1, acc)

-----------------------------------------------------------------------------
(* @watthem/quarrel: the vectorizer and the similarity measure.  The package *)
(* is not part of the scripts; it is modelled from its contract: term        *)
(* frequencies folded into hashDim buckets and L2-normalised, the zero       *)
(* vector for a document without terms, similarity 0 against a zero vector.  *)

\* hash(term, dim): a fixed bucket per term
hashTerm(term, dim) ==
    (CASE term = "cat" -> 0
       [] term = "dog" -> 1
       [] term = "a"   -> 0
       [] term = "b"   -> 1
       [] term = "c"   -> 2
       [] OTHER        -> 3) % dim

\* floor(1000 * sqrt(x)), for the sum of the squared term counts of a document
Sqrt1000(x) ==
    CASE x = 0 -> 0
      [] x = 1 -> 1000
      [] x = 2 -> 1414
      [] x = 3 -> 1732
      [] x = 4 -> 2000
      [] x = 5 -> 2236
      [] OTHER -> CHOOSE r \in 0..(1000 * x) : r * r <= x * 1000000 /\ x * 1000000 < (r + 1) * (r + 1)

\* one document's dense vector: content is a sequence of terms
vectorizeOne(content, dim) ==
    LET count(i) == Cardinality({j \in DOMAIN content : hashTerm(content[j], dim) = i})
        sumsq == LET RECURSIVE S(_)
                     S(i) == IF i < 0 THEN 0 ELSE count(i) * count(i) + S(i - 1)
                 IN  S(dim - 1)
    IN  [i \in 0..(dim - 1) |->
            IF count(i) = 0 THEN 0 ELSE (count(i) * 100000000) \div Sqrt1000(sumsq)]

\* vectorizeDocuments(docs, {useHashing: true, hashDim}).vectors
vectorizeDocuments(ds, dim) == [i \in DOMAIN ds |-> vectorizeOne(ds[i].content, dim)]

IsZeroVector(v) == \A i \in DOMAIN v : v[i] = 0

\* the similarities, in units of 1e-3, that the ranking is examined on
SimValues == {0, 96, 104, 1000}

\* cosineSimilarity(a, b): 0 when either vector is the zero vector, otherwise a
\* value of [0, 1] that the model leaves open
cosineOutcomes(a, b) == IF IsZeroVector(a) \/ IsZeroVector(b) THEN {0} ELSE SimValues

-----------------------------------------------------------------------------
(* Sparse encoding of a vector *)

\* the property name JavaScript gives an array index, and parseInt of it
KeyOf(i) == <<"key", i>>
parseIntKey(k) == k[2]

\* Math.round(x * 10000) / 10000 on a weight in units of 1e-5
Round4(w) == ((w + 5) \div 10) * 10

\* the sparseVectors map callback of buildIndex
SparseEncode(v) ==
    [k \in {KeyOf(i) : i \in {j \in DOMAIN v : v[j] # 0}} |-> Round4(v[parseIntKey(k)])]

\* shared.mjs expandSparseVector(sparse, dim)
expandSparseVector(sp, dim) ==
    LET idx == {parseIntKey(k) : k \in DOMAIN sp} IN
    [i \in (0..(dim - 1)) \cup idx |-> IF KeyOf(i) \in DOMAIN sp THEN sp[KeyOf(i)] ELSE 0]

-----------------------------------------------------------------------------
(* The index file *)

IndexFields == {"version", "created", "root", "hashDim", "docCount", "metadata", "vectors"}

Absent == [bytes |-> "absent"]

RootIndexDir == getDefaultIndexDir(Root)
SubIndexDir == getDefaultIndexDir(SubDir)
IndexDirSet == {RootIndexDir, SubIndexDir}

-----------------------------------------------------------------------------
(* The build operation: buildIndex of scripts/index-workspace.mjs ("v3") and *)
(* of its earlier copy ("v2")                                                *)

FileAt(path) == CHOOSE n \in fs : n.path = path

\* readFile(filePath, 'utf-8') succeeds
ReadOk(path) == \E n \in fs : n.path = path /\ n.kind = "file" /\ n.ok

\* /^\d+$/.test(baseName)
IsNumeric(seg) == seg \in {"2024"}

\* basename(filename, extname(filename)), as the words of the name
baseName(name) == IF extname(name) = <<"">> THEN name ELSE SubSeq(name, 1, Len(name) - 1)

\* buildEnrichedContent(content, filename).enrichedContent: the words of the
\* file name unless it is purely numeric, then the body
buildEnrichedContent(content, path) ==
    LET b == baseName(Last(path)) IN
    (IF Len(b) = 1 /\ IsNumeric(b[1]) THEN <<>> ELSE b) \o content

\* the document pushed for a file that was read
DocOf(script, path) ==
    LET content == FileAt(path).content
        relativePath == relative(Root, path)
    IN  [ id |-> relativePath,
          title |-> baseName(Last(path)),
          content |-> IF script = "v3" THEN buildEnrichedContent(content, path) ELSE content ]

\* the metadata entry pushed for a file that was read
MetaOf(path) ==
    LET relativePath == relative(Root, path) IN
    [ id |-> relativePath,
      path |-> relativePath,
      title |-> baseName(Last(path)),
      fingerprint |-> FileAt(path).content,
      ext |-> toLowerCase(extname(Last(path))) ]

\* one iteration of the read loop: try { readFile ...; docs.push; metadata.push }
\* catch { console.warn }
DocsAfterRead(ds, script, path) == IF ReadOk(path) THEN Append(ds, DocOf(script, path)) ELSE ds

MetaAfterRead_PushedOutsideTry(md, path) ==
    Append(md, [ id |-> relative(Root, path), path |-> relative(Root, path),
                 title |-> baseName(Last(path)), fingerprint |-> <<>>,
                 ext |-> toLowerCase(extname(Last(path))) ])
MetaAfterRead(md, path) == IF ReadOk(path) THEN Append(md, MetaOf(path)) ELSE md

WarnAfterRead_Silent(w, path) == w
WarnAfterRead(w, path) == IF ReadOk(path) THEN w ELSE Append(w, path)

\* the index object buildIndex serialises
IndexObject(script, ds, md, sv) ==
    [ fields |-> IndexFields,
      version |-> IF script = "v3" THEN 3 ELSE 2,
      root |-> Root,
      hashDim |-> HashDim,
      docCount |-> Len(ds),
      metadata |-> md,
      vectors |-> sv ]

\* collectFiles, then exit(0) when nothing was found
BCollectSteps ==
    /\ bpc = "start"
    /\ files' = collectFiles(Root, <<>>)
    /\ IF files' = <<>>
       THEN /\ bpc' = "done"
            /\ bexit' = "exit0"
            /\ blog' = Append(blog, "No indexable files found")
       ELSE /\ bpc' = "read"
            /\ bexit' = bexit
            /\ blog' = blog
    /\ bpos' = 1
    /\ UNCHANGED <<bscript, docs, metadata, bwarn, bvectors, bdense, bindex>>
    /\ UNCHANGED <<fs, prevIndex, qvars, svars>>

BCollect_MkdirFirst ==
    /\ BCollectSteps
    /\ indexDirs' = indexDirs \cup {RootIndexDir}
    /\ UNCHANGED indexFiles
BCollect ==
    /\ BCollectSteps
    /\ UNCHANGED fsvars

\* one file of the read loop; after the last one the vectors are computed and
\* sparse-encoded, up to the await of mkdir
BRead ==
    /\ bpc = "read"
    /\ bpos <= Len(files)
    /\ LET path == files[bpos]
           ds == DocsAfterRead(docs, bscript, path)
       IN  /\ docs' = ds
           /\ metadata' = MetaAfterRead(metadata, path)
           /\ bwarn' = WarnAfterRead(bwarn, path)
           /\ bpos' = bpos + 1
           /\ IF bpos = Len(files)
              THEN /\ bdense' = vectorizeDocuments(ds, HashDim)
                   /\ bvectors' = [i \in DOMAIN ds |-> SparseEncode(bdense'[i])]
                   /\ bpc' = "mkdir"
              ELSE /\ bdense' = bdense
                   /\ bvectors' = bvectors
                   /\ bpc' = "read"
    /\ UNCHANGED <<bscript, files, bindex, bexit, blog>>
    /\ UNCHANGED <<fs, prevIndex, fsvars, qvars, svars>>

\* mkdir(indexDir, { recursive: true }), then the index object is built and
\* writeFile is called
BMkdir ==
    /\ bpc = "mkdir"
    /\ indexDirs' = indexDirs \cup {RootIndexDir}
    /\ bindex' = IndexObject(bscript, docs, metadata, bvectors)
    /\ bpc' = "open"
    /\ UNCHANGED <<bscript, files, bpos, docs, metadata, bwarn, bvectors, bdense, bexit, blog>>
    /\ UNCHANGED <<fs, prevIndex, indexFiles, qvars, svars>>

\* writeFile opens index.json with flag 'w': the file is created or truncated
BWriteOpen ==
    /\ bpc = "open"
    /\ indexFiles' = [indexFiles EXCEPT ![RootIndexDir] = [bytes |-> "empty", index |-> bindex]]
    /\ bpc' = "write"
    /\ UNCHANGED <<bscript, files, bpos, docs, metadata, bwarn, bvectors, bdense, bindex, bexit, blog>>
    /\ UNCHANGED <<fs, prevIndex, indexDirs, qvars, svars>>

\* the first part of the serialised index reaches the file
BWriteChunk ==
    /\ bpc = "write"
    /\ indexFiles[RootIndexDir].bytes = "empty"
    /\ indexFiles' = [indexFiles EXCEPT ![RootIndexDir].bytes = "partial"]
    /\ UNCHANGED bvars
    /\ UNCHANGED <<fs, prevIndex, indexDirs, qvars, svars>>

\* the rest of the index reaches the file; writeFile resolves and the summary
\* is printed
BWriteDone ==
    /\ bpc = "write"
    /\ indexFiles[RootIndexDir].bytes = "partial"
    /\ indexFiles' = [indexFiles EXCEPT ![RootIndexDir].bytes = "full"]
    /\ bpc' = "done"
    /\ bexit' = "exit0"
    /\ blog' = Append(blog, "Index written")
    /\ UNCHANGED <<bscript, files, bpos, docs, metadata, bwarn, bvectors, bdense, bindex>>
    /\ UNCHANGED <<fs, prevIndex, indexDirs, qvars, svars>>

BuildNext == BCollect \/ BRead \/ BMkdir \/ BWriteOpen \/ BWriteChunk \/ BWriteDone

-----------------------------------------------------------------------------
(* The query operation: command line *)

Undefined == "undefined"      \* args[++i] past the end of args
Null == "null"

NaN == [nan |-> TRUE, v |-> 0]
Num(n) == [nan |-> FALSE, v |-> n]

\* parseInt(s, 10)
parseInt(tok) ==
    CASE tok = "0"  -> Num(0)
      [] tok = "1"  -> Num(1)
      [] tok = "2"  -> Num(2)
      [] tok = "-1" -> Num(-1)
      [] OTHER      -> NaN

\* parseFloat(s), in units of 1e-3
parseFloat(tok) ==
    CASE tok = "0"     -> Num(0)
      [] tok = "0.1"   -> Num(100)
      [] tok = "0.101" -> Num(101)
      [] tok = "1"     -> Num(1000)
      [] tok = "-1"    -> Num(-1000)
      [] OTHER         -> NaN

\* arg.startsWith('-')
startsWithDash(tok) ==
    tok \in {"--text", "-t", "--top", "-n", "--threshold", "--index", "-i", "--json",
             "--help", "-h", "-1", "--verbose"}

\* a path argument as node:path sees it
PathOf(tok) ==
    CASE tok = "a.md"       -> [abs |-> FALSE, parts |-> << <<"a", "md">> >>]
      [] tok = "./a.md"     -> [abs |-> FALSE, parts |-> << DotName, <<"a", "md">> >>]
      [] tok = "../a.md"    -> [abs |-> FALSE, parts |-> << DotDotName, <<"a", "md">> >>]
      [] tok = "/ws/a.md"   -> [abs |-> TRUE,  parts |-> << <<"ws">>, <<"a", "md">> >>]
      [] tok = "/ws/./a.md" -> [abs |-> TRUE,  parts |-> << <<"ws">>, DotName, <<"a", "md">> >>]
      [] tok = "sub/b.md"   -> [abs |-> FALSE, parts |-> << <<"sub">>, <<"b", "md">> >>]
      [] tok = "b.md"       -> [abs |-> FALSE, parts |-> << <<"b", "md">> >>]
      [] tok = "c.ts"       -> [abs |-> FALSE, parts |-> << <<"c", "ts">> >>]
      [] tok = "/ws/.similar-files" ->
                               [abs |-> TRUE,  parts |-> << <<"ws">>, <<"", "similar-files">> >>]
      [] OTHER              -> [abs |-> FALSE, parts |-> << <<tok>> >>]

\* the terms of a --text query
TermsOf(tok) ==
    CASE tok = "cat" -> <<"cat">>
      [] tok = "cat dog" -> <<"cat", "dog">>
      [] OTHER -> <<>>

DefaultOptions ==
    [ query |-> Null, isText |-> FALSE, top |-> Num(DefaultTop),
      threshold |-> Num(DefaultThreshold), indexDir |-> Null, json |-> FALSE, help |-> FALSE ]

RECURSIVE parseArgsFrom(_, _, _)
\* the while loop of parseArgs
parseArgsFrom(args, i, result) ==
    IF i > Len(args) THEN result
    ELSE LET arg == args[i]
             next == IF i + 1 <= Len(args) THEN args[i + 1] ELSE Undefined
         IN  IF arg \in {"--text", "-t"}
             THEN parseArgsFrom(args, i + 2, [result EXCEPT !.isText = TRUE, !.query = next])
             ELSE IF arg \in {"--top", "-n"}
             THEN parseArgsFrom(args, i + 2, [result EXCEPT !.top = parseInt(next)])
             ELSE IF arg = "--threshold"
             THEN parseArgsFrom(args, i + 2, [result EXCEPT !.threshold = parseFloat(next)])
             ELSE IF arg \in {"--index", "-i"}
             THEN parseArgsFrom(args, i + 2, [result EXCEPT !.indexDir = next])
             ELSE IF arg = "--json"
             THEN parseArgsFrom(args, i + 1, [result EXCEPT !.json = TRUE])
             ELSE IF arg \in {"--help", "-h"}
             THEN parseArgsFrom(args, i + 1, [result EXCEPT !.help = TRUE])
             ELSE IF ~startsWithDash(arg)
             THEN parseArgsFrom(args, i + 1, [result EXCEPT !.query = arg])
             ELSE parseArgsFrom(args, i + 1, result)

parseArgs(args) == parseArgsFrom(args, 1, DefaultOptions)

\* !x for a string option
Falsy(x) == x \in {Null, Undefined, ""}

-----------------------------------------------------------------------------
(* The query operation: loadIndex, getQueryContent, findSimilar *)

\* the index directory loadIndex looks in
QueryIndexDir(cwd, opts) ==
    IF Falsy(opts.indexDir) THEN getDefaultIndexDir(cwd) ELSE resolve(cwd, PathOf(opts.indexDir))

\* what readFile(indexFile) finds at this moment
IndexFileAt(dir) == IF dir \in IndexDirSet THEN indexFiles[dir] ELSE Absent

\* the try block of loadIndex on the file it read: readFile, JSON.parse, the
\* check of the required fields
loadIndexOutcome(file) ==
    IF file.bytes = "absent" THEN "ENOENT"
    ELSE IF file.bytes # "full" THEN "SyntaxError"
    ELSE IF \/ "version" \notin file.index.fields \/ file.index.version = 0
            \/ "vectors" \notin file.index.fields
            \/ "metadata" \notin file.index.fields
         THEN "Invalid index format"
         ELSE "ok"

\* the catch block of loadIndex: what is printed for an error
loadIndexMessages_Rethrow(outcome) == <<>>
loadIndexMessages(outcome) ==
    IF outcome = "ENOENT"
    THEN <<"Index not found at", "To create an index, run: similar-index --root">>
    ELSE <<>>

\* resolve of the query path in getQueryContent
QueryFilePath(cwd, query) ==
    IF isAbsolute(PathOf(query)) THEN PathOf(query).parts ELSE resolve(cwd, PathOf(query))

\* Math.round(similarity * 100) / 100 on a similarity in units of 1e-3
Round2(x) == ((x + 5) \div 10) * 10

\* similarity >= options.threshold
Geq(x, t) == ~t.nan /\ x >= t.v

\* the self-match test of the loop of findSimilar
IsSelfMatch_TextOnly(opts, root, q, meta) ==
    opts.isText /\ meta.path = q.title
IsSelfMatch(opts, root, q, meta) ==
    /\ ~opts.isText
    /\ LET docAbsPath == resolve(root, [abs |-> FALSE, parts |-> meta.path]) IN
       \/ docAbsPath = q.absolutePath
       \/ meta.path = q.title

RECURSIVE rankLoop(_, _, _, _, _, _)
\* the loop of findSimilar over index.vectors; sims[i] is the similarity of
\* document i.  Reading a field of a missing metadata entry throws.
rankLoop(idx, opts, q, sims, i, acc) ==
    IF i > Len(idx.vectors) THEN [thrown |-> FALSE, results |-> acc]
    ELSE IF ~opts.isText /\ i > Len(idx.metadata) THEN [thrown |-> TRUE, results |-> acc]
    ELSE IF ~opts.isText /\ IsSelfMatch(opts, idx.root, q, idx.metadata[i])
         THEN rankLoop(idx, opts, q, sims, i + 1, acc)
    ELSE IF Geq(sims[i], opts.threshold)
         THEN IF i > Len(idx.metadata) THEN [thrown |-> TRUE, results |-> acc]
              ELSE rankLoop(idx, opts, q, sims, i + 1,
                            Append(acc, [ path |-> idx.metadata[i].path,
                                          title |-> idx.metadata[i].title,
                                          similarity |-> Round2(sims[i]),
                                          ext |-> idx.metadata[i].ext ]))
    ELSE rankLoop(idx, opts, q, sims, i + 1, acc)

RECURSIVE sortBySimilarity(_)
\* results.sort((a, b) => b.similarity - a.similarity): stable, descending
sortBySimilarity(rs) ==
    IF rs = <<>> THEN <<>>
    ELSE LET rest == sortBySimilarity(Tail(rs))
             h == Head(rs)
             k == Cardinality({j \in DOMAIN rest : rest[j].similarity > h.similarity})
         IN  SubSeq(rest, 1, k) \o <<h>> \o SubSeq(rest, k + 1, Len(rest))

\* results.slice(0, options.top)
sliceTop(rs, top) ==
    IF top.nan THEN <<>>
    ELSE IF top.v < 0
         THEN SubSeq(rs, 1, IF Len(rs) + top.v > 0 THEN Len(rs) + top.v ELSE 0)
         ELSE SubSeq(rs, 1, IF top.v < Len(rs) THEN top.v ELSE Len(rs))

\* the command lines the query is examined on: limit, threshold and the query
TopArgs == { <<>>, <<"--top", "1">>, <<"-n", "-1">>, <<"--top", "abc">> }
ThresholdArgs == { <<>>, <<"--threshold", "0.101">>, <<"--threshold", "abc">>,
                   <<"--threshold", "0">> }
Invocations ==
    { [cwd |-> Root, args |-> t \o h \o q] :
        t \in TopArgs, h \in ThresholdArgs, q \in { <<"a.md">>, <<"--text", "cat">> } }
    \cup
    { [cwd |-> Root, args |-> a] :
        a \in { <<>>, <<"--help">>, <<"--json">>, <<"--text">>,
                <<"./a.md">>, <<"/ws/./a.md">>, <<"sub/b.md">>, <<"c.ts">>,
                <<"missing.md">>, <<"--json", "--text", "cat dog">> } }
    \cup
    { [cwd |-> SubDir, args |-> a] :
        a \in { <<"b.md">>, <<"-i", "/ws/.similar-files", "b.md">>,
                <<"--index", "/ws/.similar-files", "../a.md">> } }

NoContent == [content |-> <<>>, title |-> <<>>, absolutePath |-> <<>>]
NoFile == [result |-> "none"]

\* main up to the call of findSimilar
QMain ==
    /\ qpc = "start"
    /\ \E inv \in Invocations :
        LET opts == parseArgs(inv.args) IN
        /\ qcwd' = inv.cwd
        /\ qargs' = inv.args
        /\ options' = opts
        /\ IF Len(inv.args) = 0
           THEN /\ qpc' = "done" /\ qexit' = "exit1" /\ qerr' = qerr /\ qout' = <<"help">>
           ELSE IF opts.help
           THEN /\ qpc' = "done" /\ qexit' = "exit0" /\ qerr' = qerr /\ qout' = <<"help">>
           ELSE IF Falsy(opts.query)
           THEN /\ qpc' = "done" /\ qexit' = "exit1"
                /\ qerr' = <<"Error: No query file or text provided">>
                /\ qout' = <<"help">>
           ELSE /\ qpc' = "load" /\ qexit' = qexit /\ qerr' = qerr /\ qout' = qout
    /\ UNCHANGED <<qload, qindex, qcontent, qsims, results, qthrown, qvector, qdocvecs>>
    /\ UNCHANGED <<fs, prevIndex, fsvars, bvars, svars>>

\* loadIndex: ENOENT prints the hint and exits 1; any other error is rethrown
\* to main().catch, which prints it and exits 1
QLoadIndexSteps ==
    /\ qpc = "load"
    /\ LET file == IndexFileAt(QueryIndexDir(qcwd, options))
           outcome == loadIndexOutcome(file)
       IN  /\ qload' = [result |-> outcome, file |-> file]
           /\ IF outcome = "ok"
              THEN /\ qindex' = file.index
                   /\ qpc' = "content"
                   /\ UNCHANGED <<qexit, qerr>>
              ELSE /\ qindex' = qindex
                   /\ qpc' = "done"
                   /\ qexit' = "exit1"
                   /\ qerr' = IF outcome = "ENOENT" THEN loadIndexMessages(outcome)
                              ELSE loadIndexMessages(outcome) \o <<"Error:", outcome>>
    /\ UNCHANGED <<qcwd, qargs, options, qcontent, qsims, results, qthrown, qvector, qdocvecs, qout>>
    /\ UNCHANGED <<fs, prevIndex, bvars, svars>>

QLoadIndex_MkdirFirst ==
    /\ QLoadIndexSteps
    /\ indexDirs' = indexDirs \cup {QueryIndexDir(qcwd, options)}
    /\ UNCHANGED indexFiles
QLoadIndex ==
    /\ QLoadIndexSteps
    /\ UNCHANGED fsvars

\* the catch block of getQueryContent: the two messages and process.exit(1)
getQueryContentCatch_NoExit(query) ==
    [pc |-> "rank", exit |-> "running", err |-> <<"Cannot read file", "ENOENT">>]
getQueryContentCatch(query) ==
    [pc |-> "done", exit |-> "exit1", err |-> <<"Cannot read file", "ENOENT">>]

\* getQueryContent for a file query: readFile of the resolved path
QGetContent ==
    /\ qpc = "content"
    /\ ~options.isText
    /\ LET filePath == QueryFilePath(qcwd, options.query)
           onDisk == normalize(filePath, <<>>)
       IN  IF ReadOk(onDisk)
           THEN /\ qcontent' = [ content |-> FileAt(onDisk).content,
                                 title |-> relative(qindex.root, filePath),
                                 absolutePath |-> filePath ]
                /\ qpc' = "rank"
                /\ UNCHANGED <<qexit, qerr>>
           ELSE /\ qcontent' = qcontent
                /\ qpc' = getQueryContentCatch(options.query).pc
                /\ qexit' = getQueryContentCatch(options.query).exit
                /\ qerr' = getQueryContentCatch(options.query).err
    /\ UNCHANGED <<qcwd, qargs, options, qload, qindex, qsims, results, qthrown, qvector, qdocvecs, qout>>
    /\ UNCHANGED <<fs, prevIndex, fsvars, bvars, svars>>

\* the hashDim findSimilar passes to vectorizeDocuments and expandSparseVector
queryHashDim_OffByOne(index) == HashDim + 1
queryHashDim(index) == index.hashDim

\* the rest of findSimilar, and printResults: the query is vectorised with
\* index.hashDim, every document is scored, the results are filtered, sorted
\* and cut.  A text query gets here without a file read.
QRank ==
    /\ \/ qpc = "rank"
       \/ qpc = "content" /\ options.isText
    /\ LET q == IF options.isText
                THEN [content |-> TermsOf(options.query), title |-> <<"Query">>,
                      absolutePath |-> <<>>]
                ELSE qcontent
           queryVector == vectorizeOne(q.content, queryHashDim(qindex))
           docVectors == [i \in 1..Len(qindex.vectors) |->
                             expandSparseVector(qindex.vectors[i], queryHashDim(qindex))]
       IN  \E sims \in [1..Len(qindex.vectors) -> SimValues] :
             /\ \A i \in 1..Len(qindex.vectors) :
                   sims[i] \in cosineOutcomes(queryVector, docVectors[i])
             /\ LET r == rankLoop(qindex, options, q, sims, 1, <<>>) IN
                /\ qcontent' = q
                /\ qvector' = queryVector
                /\ qdocvecs' = docVectors
                /\ qsims' = sims
                /\ qthrown' = r.thrown
                /\ IF r.thrown
                   THEN /\ results' = results
                        /\ qexit' = "exit1"
                        /\ qerr' = <<"Error:", "TypeError">>
                        /\ qout' = qout
                   ELSE /\ results' = sliceTop(sortBySimilarity(r.results), options.top)
                        /\ qexit' = "exit0"
                        /\ qerr' = qerr
                        /\ qout' = IF options.json THEN <<"json">>
                                   ELSE IF Len(results') = 0 THEN <<"No similar files found">>
                                   ELSE <<"Similar files to">>
    /\ qpc' = "done"
    /\ UNCHANGED <<qcwd, qargs, options, qload, qindex>>
    /\ UNCHANGED <<fs, prevIndex, fsvars, bvars, svars>>

QueryNext == QMain \/ QLoadIndex \/ QGetContent \/ QRank

-----------------------------------------------------------------------------
(* The sparse round trip of one vector: encode as buildIndex does, expand as *)
(* findSimilar does, encode again                                            *)

\* weights in units of 1e-5, around the rounding step of the encoding
Weights == {0, 4, 5, 12344, 12345, 100000}

SEncode ==
    /\ spc = "init"
    /\ sparse' = SparseEncode(vec)
    /\ spc' = "encoded"
    /\ UNCHANGED <<vec, dense, resparse>>
    /\ UNCHANGED <<fs, prevIndex, fsvars, bvars, qvars>>

SExpand ==
    /\ spc = "encoded"
    /\ dense' = expandSparseVector(sparse, HashDim)
    /\ spc' = "expanded"
    /\ UNCHANGED <<vec, sparse, resparse>>
    /\ UNCHANGED <<fs, prevIndex, fsvars, bvars, qvars>>

SReencode ==
    /\ spc = "expanded"
    /\ resparse' = SparseEncode(dense)
    /\ spc' = "done"
    /\ UNCHANGED <<vec, sparse, dense>>
    /\ UNCHANGED <<fs, prevIndex, fsvars, bvars, qvars>>

SparseNext == SEncode \/ SExpand \/ SReencode

-----------------------------------------------------------------------------
(* Initial states *)

Dir(path, ok, ord) == [path |-> path, kind |-> "dir", ok |-> ok, content |-> <<>>, ord |-> ord]
File(path, ok, content, ord) ==
    [path |-> path, kind |-> "file", ok |-> ok, content |-> content, ord |-> ord]

AMd == Append(Root, <<"a", "md">>)
BMd == Append(SubDir, <<"b", "md">>)
CTs == Append(Root, <<"c", "ts">>)

\* the workspace of the build and the query; the files of `unreadable` exist
\* but cannot be read
Workspace(unreadable) ==
    { Dir(Root, TRUE, 0),
      File(AMd, AMd \notin unreadable, <<"cat">>, 1),
      Dir(Append(Root, <<"node_modules">>), TRUE, 2),
      File(Append(Append(Root, <<"node_modules">>), <<"x", "js">>), TRUE, <<"dog">>, 1),
      Dir(SubDir, TRUE, 3),
      File(BMd, BMd \notin unreadable, <<"dog">>, 1),
      File(CTs, CTs \notin unreadable, <<>>, 4),
      File(Append(Root, <<"notes", "txt">>), TRUE, <<"cat">>, 5) }

\* a workspace without indexable files
EmptyWorkspace ==
    { Dir(Root, TRUE, 0), File(Append(Root, <<"notes", "txt">>), TRUE, <<"cat">>, 1) }

Workspaces == { Workspace(u) : u \in SUBSET {AMd, BMd, CTs} } \cup { EmptyWorkspace }

\* the index an earlier build of the workspace left
OldMeta(rel, content) ==
    [ id |-> rel, path |-> rel, title |-> baseName(Last(rel)), fingerprint |-> content,
      ext |-> toLowerCase(extname(Last(rel))) ]

OldIndex ==
    [ fields |-> IndexFields, version |-> 3, root |-> Root, hashDim |-> HashDim,
      docCount |-> 2,
      metadata |-> << OldMeta(relative(Root, AMd), <<"cat">>),
                      OldMeta(relative(Root, BMd), <<"dog">>) >>,
      vectors |-> << SparseEncode(vectorizeOne(<<"a", "cat">>, HashDim)),
                     SparseEncode(vectorizeOne(<<"b", "dog">>, HashDim)) >> ]

\* index files that are present but break the structure of an index
CorruptIndexes ==
    { [OldIndex EXCEPT !.fields = IndexFields \ {"vectors"}, !.vectors = <<>>],
      [OldIndex EXCEPT !.metadata = SubSeq(OldIndex.metadata, 1, 1)],
      [OldIndex EXCEPT !.vectors = SubSeq(OldIndex.vectors, 1, 1)],
      [OldIndex EXCEPT !.docCount = 1] }

PrevIndexFiles ==
    { Absent } \cup { [bytes |-> "full", index |-> x] : x \in {OldIndex} \cup CorruptIndexes }

NoIndex == [fields |-> {}]

FsInit ==
    /\ prevIndex \in PrevIndexFiles
    /\ indexFiles = [d \in IndexDirSet |-> IF d = RootIndexDir THEN prevIndex ELSE Absent]
    /\ indexDirs = IF prevIndex = Absent THEN {} ELSE {RootIndexDir}

BuildInit ==
    /\ bscript \in {"v3", "v2"}
    /\ bpc = "start"
    /\ files = <<>>
    /\ bpos = 1
    /\ docs = <<>>
    /\ metadata = <<>>
    /\ bwarn = <<>>
    /\ bvectors = <<>>
    /\ bindex = NoIndex
    /\ bexit = "running"
    /\ blog = <<>>
    /\ bdense = <<>>

QueryInit ==
    /\ qpc = "start"
    /\ qcwd = Root
    /\ qargs = <<>>
    /\ options = DefaultOptions
    /\ qload = NoFile
    /\ qindex = NoIndex
    /\ qcontent = NoContent
    /\ qsims = <<>>
    /\ results = <<>>
    /\ qthrown = FALSE
    /\ qexit = "running"
    /\ qerr = <<>>
    /\ qout = <<>>
    /\ qvector = <<>>
    /\ qdocvecs = <<>>

SparseIdle ==
    /\ spc = "idle"
    /\ vec = <<>>
    /\ sparse = <<>>
    /\ dense = <<>>
    /\ resparse = <<>>

Init ==
    /\ fs \in Workspaces
    /\ FsInit
    /\ BuildInit
    /\ QueryInit
    /\ SparseIdle

Next == BuildNext \/ QueryNext

\* one build and one query as concurrent processes over the file system
Spec == Init /\ [][Next]_vars

-----------------------------------------------------------------------------
(* File discovery on its own, over a family of directory trees *)

FileNames == { <<"a", "md">>, <<"B", "MD">>, <<"notes", "txt">>, <<"", "md">>,
               <<"README">>, <<"a", "test", "ts">> }
DirNames == { <<"src">>, <<"node_modules">>, <<"", "hidden">>, <<"Node_Modules">>,
              <<"docs", "md">> }
InnerDirNames == { <<"lib">>, <<"dist">>, <<"", "git">> }
InnerFileNames == { <<"x", "js">>, <<"y", "Md">>, <<"z", "json">> }

Trees ==
    { { Dir(Root, rok, 0),
        [path |-> Append(Root, n1), kind |-> k1, ok |-> TRUE, content |-> <<>>, ord |-> 1],
        Dir(Append(Root, d1), dok, 2),
        File(Append(Append(Root, d1), n2), TRUE, <<>>, 1),
        Dir(Append(Append(Root, d1), d2), TRUE, 2),
        File(Append(Append(Append(Root, d1), d2), n3), TRUE, <<>>, 1) } :
      rok \in BOOLEAN, n1 \in FileNames, k1 \in {"file", "other"},
      d1 \in DirNames, dok \in BOOLEAN,
      n2 \in InnerFileNames, d2 \in InnerDirNames, n3 \in InnerFileNames }

InitCollect ==
    /\ fs \in Trees
    /\ prevIndex = Absent
    /\ indexFiles = [d \in IndexDirSet |-> Absent]
    /\ indexDirs = {}
    /\ BuildInit
    /\ QueryInit
    /\ SparseIdle

SpecCollect == InitCollect /\ [][BCollect]_vars

-----------------------------------------------------------------------------
(* The sparse round trip on its own, over a family of dense vectors *)

InitSparse ==
    /\ fs = EmptyWorkspace
    /\ prevIndex = Absent
    /\ indexFiles = [d \in IndexDirSet |-> Absent]
    /\ indexDirs = {}
    /\ BuildInit
    /\ QueryInit
    /\ spc = "init"
    /\ vec \in [0..(HashDim - 1) -> Weights]
    /\ sparse = <<>>
    /\ dense = <<>>
    /\ resparse = <<>>

SpecSparse == InitSparse /\ [][SparseNext]_vars

-----------------------------------------------------------------------------
(* Properties *)

\* the query reached the end of findSimilar and returned a result list
Ranked == qpc = "done" /\ qload.result = "ok" /\ qexit = "exit0" /\ qout # <<"help">>

\* C1: for every threshold t and limit n, the result list of findSimilar holds
\* only entries whose reported similarity is >= t, has at most n entries (none
\* for a negative n), and is in non-increasing order of similarity.
C1_ThresholdTopContract ==
    Ranked =>
        /\ \A i \in DOMAIN results : Geq(results[i].similarity, options.threshold)
        /\ ~options.top.nan => Len(results) <= (IF options.top.v > 0 THEN options.top.v ELSE 0)
        /\ \A i, j \in DOMAIN results : i < j => results[i].similarity >= results[j].similarity

C3_AtomicSave ==
    qload.result # "none" =>
        \/ qload.file = Absent
        \/ qload.file = prevIndex
        \/ qload.file = [bytes |-> "full", index |-> bindex]

\* C4: every index buildIndex writes has as many metadata entries as vectors,
\* that number is docCount, and entry i and vector i come from the same file.
C4_IndexAligned ==
    bindex # NoIndex =>
        /\ Len(bindex.metadata) = Len(bindex.vectors)
        /\ Len(bindex.vectors) = bindex.docCount
        /\ \A i \in DOMAIN bindex.metadata :
              \E k \in DOMAIN files :
                  /\ ReadOk(files[k])
                  /\ bindex.metadata[i].path = relative(Root, files[k])
                  /\ bindex.metadata[i].fingerprint = FileAt(files[k]).content
                  /\ bindex.vectors[i]
                        = SparseEncode(vectorizeOne(DocOf(bscript, files[k]).content, HashDim))
        /\ indexFiles[RootIndexDir].bytes \in {"empty", "partial", "full"}
              /\ bpc \in {"write", "done"}
           => indexFiles[RootIndexDir].index = bindex

\* C4 witness: a finished build that indexed some files and skipped another.
C4_Witness ==
    /\ bpc = "done"
    /\ indexFiles[RootIndexDir] = [bytes |-> "full", index |-> bindex]
    /\ bindex # NoIndex
    /\ Len(bindex.metadata) >= 2
    /\ bwarn # <<>>

\* C5: loadIndex rejects a present index file that breaks the structure of an
\* index: a required field missing, or metadata, vectors and docCount of
\* different lengths.
C5_CorruptRejected ==
    qload.result = "ok" =>
        /\ {"version", "vectors", "metadata"} \subseteq qload.file.index.fields
        /\ Len(qload.file.index.metadata) = Len(qload.file.index.vectors)
        /\ Len(qload.file.index.vectors) = qload.file.index.docCount

\* C6: a query that finds no index file exits non-zero after telling the user
\* to run the build; it reads no query file, scores nothing, prints no results.
C6_NotFound ==
    (qload.result # "none" /\ qload.file = Absent) =>
        /\ qload.result = "ENOENT"
        /\ qpc = "done"
        /\ qexit = "exit1"
        /\ \E k \in DOMAIN qerr : qerr[k] = "To create an index, run: similar-index --root"
        /\ qcontent = NoContent
        /\ qsims = <<>>
        /\ results = <<>>
        /\ qout = <<>>

\* C6 witness: a file query ended by the missing index.
C6_Witness ==
    /\ qpc = "done"
    /\ qload.result # "none" /\ qload.file = Absent
    /\ ~options.isText
    /\ qexit = "exit1"

NotReadOk(path) == ~ReadOk(path)

\* C7: a file that cannot be read is skipped with a warning and contributes no
\* document and no metadata; the readable files are indexed in discovery
\* order; the build writes the index and ends without an error.
C7_ReadFailureSkipped ==
    /\ bexit # "exit1"
    /\ (bpc = "done" /\ files # <<>>) =>
        LET readable == SelectSeq(files, ReadOk) IN
        /\ bwarn = SelectSeq(files, NotReadOk)
        /\ [i \in DOMAIN docs |-> docs[i].id] = [i \in DOMAIN readable |-> relative(Root, readable[i])]
        /\ [i \in DOMAIN metadata |-> metadata[i].path]
              = [i \in DOMAIN readable |-> relative(Root, readable[i])]
        /\ bexit = "exit0"
        /\ indexFiles[RootIndexDir] = [bytes |-> "full", index |-> bindex]
        /\ bindex.metadata = metadata

\* C7 witness: a finished build in which exactly the first discovered file
\* could not be read and the two after it were indexed.
C7_Witness ==
    /\ bpc = "done"
    /\ Len(files) = 3
    /\ ~ReadOk(files[1])
    /\ Len(docs) = 2
    /\ indexFiles[RootIndexDir].bytes = "full"

\* C8: no step of a query, whatever its arguments and outcome, changes an
\* index file or creates an index directory.
C8_QueryReadOnly ==
    [][qpc' # qpc => (indexFiles' = indexFiles /\ indexDirs' = indexDirs)]_vars

\* C8 witness: queries that ended (one with results, and the error exits)
\* while the index file is the one the build left.
C8_Witness ==
    /\ qpc = "done"
    /\ qexit = "exit0"
    /\ results # <<>>
    /\ bpc = "done"
    /\ indexFiles[RootIndexDir] = [bytes |-> "full", index |-> bindex]

\* C9: every sparse vector buildIndex writes survives expansion to hashDim
\* and re-encoding: the same bucket indices with the same weights.
C9_SparseRoundTrip ==
    spc = "done" => resparse = sparse

\* the directory names strictly between the root and a file
DirComponents(path) == { path[k] : k \in (Len(Root) + 1)..(Len(path) - 1) }

\* every directory from the root down to the file's parent can be read
InReadableDirs(path) ==
    \A k \in Len(Root)..(Len(path) - 1) : ~ReadDirFails(SubSeq(path, 1, k))

Indexable(path) ==
    /\ toLowerCase(extname(Last(path))) \in allowedExtensions
    /\ \A c \in DirComponents(path) : c \notin excludedDirs /\ ~startsWithDot(c)

\* C10: collectFiles returns only files with an allowed lower-cased extension
\* and no excluded or hidden directory on the way from the root, and returns
\* each such regular file in readable directories exactly once.
C10_CollectFiles ==
    bpc # "start" =>
        /\ \A i \in DOMAIN files :
              /\ Indexable(files[i])
              /\ \E n \in fs : n.path = files[i] /\ n.kind = "file"
        /\ \A n \in fs :
              (n.kind = "file" /\ Indexable(n.path) /\ InReadableDirs(n.path))
              => Cardinality({i \in DOMAIN files : files[i] = n.path}) = 1

\* C10 witness: a scan that returned a file with an upper-case extension and
\* left out an allowed file in a hidden directory.
C10_Witness ==
    /\ bpc # "start"
    /\ \E i \in DOMAIN files : extname(Last(files[i])) = <<"", "MD">>
    /\ \E n \in fs :
          /\ n.kind = "file"
          /\ toLowerCase(extname(Last(n.path))) \in allowedExtensions
          /\ \E c \in DirComponents(n.path) : startsWithDot(c)
          /\ \A i \in DOMAIN files : files[i] # n.path

\* the options name no query, or name a file that cannot be read
InvalidQuery(opts, cwd) ==
    \/ opts.query \in {Null, Undefined, ""}
    \/ ~opts.isText /\ ~ReadOk(normalize(QueryFilePath(cwd, opts.query), <<>>))

\* what a failed invocation may have printed on stdout: nothing, or the usage
NoResultList(out) == out \in {<<>>, <<"help">>}

\* every step of an invocation leaves the workspace and the index alone, and
\* its last step exits 1 without a result list
FailsWithoutTrace ==
    /\ fs' = fs /\ indexFiles' = indexFiles /\ indexDirs' = indexDirs
    /\ qpc' = "done" => (qexit' = "exit1" /\ results' = <<>> /\ NoResultList(qout'))

\* C11 as stated: an invocation without a query file or text, or whose file
\* cannot be read, exits non-zero, prints no result list and changes nothing
\* persistent.
C11_InvalidQueryExits_AsStated ==
    [][(qpc' # qpc /\ InvalidQuery(options', qcwd')) => FailsWithoutTrace]_vars

\* C11: an invocation that does not ask for the usage text and gives no query
\* file or text, or a file that cannot be read, exits non-zero, prints no
\* result list and changes nothing persistent.
C11_InvalidQueryExits ==
    [][(qpc' # qpc /\ ~options'.help /\ InvalidQuery(options', qcwd')) => FailsWithoutTrace]_vars

\* C11 witness: a file query that loaded the index and was ended by the read
\* of its file.
C11_Witness ==
    /\ qpc = "done"
    /\ ~options.help /\ ~options.isText
    /\ options.query \notin {Null, Undefined, ""}
    /\ ~ReadOk(normalize(QueryFilePath(qcwd, options.query), <<>>))
    /\ qload.result = "ok"
    /\ qexit = "exit1"
    /\ qerr = <<"Cannot read file", "ENOENT">>

\* the indexed file behind a metadata entry has empty content
EmptyFile(meta) == FileAt(normalize(Root \o meta.path, <<>>)).content = <<>>

\* C12: an indexed file with empty content gets the sparse vector without
\* entries, and no query with a positive threshold against that index returns
\* it.
C12_EmptyFileZeroVector ==
    /\ bindex # NoIndex =>
          \A i \in DOMAIN bindex.metadata :
              EmptyFile(bindex.metadata[i]) => DOMAIN bindex.vectors[i] = {}
    /\ (/\ Ranked
        /\ qload.file = [bytes |-> "full", index |-> bindex]
        /\ ~options.threshold.nan /\ options.threshold.v > 0)
       => \A i \in DOMAIN qindex.metadata :
              EmptyFile(qindex.metadata[i])
              => \A j \in DOMAIN results : results[j].path # qindex.metadata[i].path

\* the invocation ended on an error of the index (missing, unparseable,
\* required field absent) or of the read of the query file
QueryTimeError ==
    /\ qpc = "done"
    /\ \/ qload.result \in {"ENOENT", "SyntaxError", "Invalid index format"}
       \/ /\ qload.result = "ok" /\ ~options.isText
          /\ ~ReadOk(normalize(QueryFilePath(qcwd, options.query), <<>>))

\* the lines printed on stderr name the build command
PointsAtBuild(err) ==
    \E k \in DOMAIN err : err[k] = "To create an index, run: similar-index --root"

\* C13: every invocation ended by an error of the index or of the query file
\* exits non-zero and has printed a message that points at the build
\* operation.
C13_ErrorsPointAtBuild ==
    QueryTimeError => (qexit = "exit1" /\ PointsAtBuild(qerr))

\* document i of the loaded index passed the self-match and threshold filters
PassedFilters(i) ==
    /\ i \in DOMAIN qsims /\ i \in DOMAIN qindex.metadata
    /\ ~IsSelfMatch(options, qindex.root, qcontent, qindex.metadata[i])
    /\ Geq(qsims[i], options.threshold)

\* the positions of document i in the result list
PositionsOf(i) == { j \in DOMAIN results : results[j].path = qindex.metadata[i].path }

\* C14: of two documents that passed the filters, the one with the strictly
\* higher unrounded similarity comes first, and is in the list whenever the
\* other one is.
C14_FullPrecisionRanking ==
    Ranked =>
        \A i, k \in DOMAIN qsims :
            (PassedFilters(i) /\ PassedFilters(k) /\ qsims[i] > qsims[k])
            => \A jk \in PositionsOf(k) : \E ji \in PositionsOf(i) : ji < jk

\* findSimilar scored the documents of the index this build wrote
RankedBuiltIndex ==
    /\ qpc = "done" /\ qvector # <<>>
    /\ bindex # NoIndex
    /\ qload.file = [bytes |-> "full", index |-> bindex]

\* C15: when a query scores the index a build wrote, the query vector has the
\* dimension of the vectors the build got from the vectorizer (the hashDim the
\* index records), and every stored vector is expanded to that dimension.
C15_SameHashDim ==
    RankedBuiltIndex =>
        /\ DOMAIN qvector = 0..(bindex.hashDim - 1)
        /\ \A i \in DOMAIN bdense : DOMAIN bdense[i] = DOMAIN qvector
        /\ Len(qdocvecs) = Len(bindex.vectors)
        /\ \A i \in DOMAIN qdocvecs : DOMAIN qdocvecs[i] = DOMAIN qvector

\* C15 witness: a query that scored the two or more documents of the index
\* the build wrote and returned some of them.
C15_Witness ==
    /\ RankedBuiltIndex
    /\ Len(bdense) >= 2
    /\ Len(qdocvecs) = Len(bdense)
    /\ results # <<>>

\* C16: a build that found no indexable file has exited 0 without creating the
\* index directory and without touching index.json: the file an earlier build
\* left (or none) is still there, and it is what a query loads.
C16_NoFilesNoWrite ==
    (bpc = "done" /\ files = <<>>) =>
        /\ bexit = "exit0"
        /\ bindex = NoIndex
        /\ indexDirs = (IF prevIndex = Absent THEN {} ELSE {RootIndexDir})
        /\ indexFiles[RootIndexDir] = prevIndex
        /\ indexFiles[SubIndexDir] = Absent
        /\ qload.result # "none" =>
              qload.file = (IF QueryIndexDir(qcwd, options) = RootIndexDir
                            THEN prevIndex ELSE Absent)

\* C16 witness: a build that found nothing ended, and a query loaded the
\* index of the earlier build and returned documents of it.
C16_Witness ==
    /\ bpc = "done" /\ files = <<>>
    /\ prevIndex = [bytes |-> "full", index |-> OldIndex]
    /\ Ranked
    /\ qload.file = prevIndex
    /\ results # <<>>

=============================================================================
